---- MODULE Spec2Model ----
(***************************************************************************)
(* Model of the CrewAIFriday "chatbot" Streamlit application:              *)
(*   login.py        authentication gate, role filter, navigation          *)
(*   pages/home1.py  PDF upload, FAISS index, retrieval, prompt, crew run  *)
(*   pages/home.py   PDF upload, RagTool, crew run                         *)
(*   config/conf.py  APPS                                                  *)
(* One browser session runs one script at a time; a run is a sequence of   *)
(* steps (pc) and every external-library call either returns or raises.    *)
(***************************************************************************)
EXTENDS Integers, Sequences, FiniteSets, TLC

(* ------------------------------ bounds -------------------------------- *)
\* longest chat history explored (chat_input yields no further question after it)
MaxMessages == 3
\* longest list a retriever call returns in the session model
MaxReturned == 1
\* longest list of short documents fed to the prompt assembler on its own
MaxDocs == 6

(* ------------------------- program constants -------------------------- *)
\* retriever.get_relevant_documents(user_input)[:5], similarity_search(k=5)
TopK == 5
\* if len(snippet) > 1000: snippet = snippet[:1000]...
SnippetLimit == 1000

(* --------------------------- config/conf.py --------------------------- *)
APPS ==
  << [name |-> "Personal ChatBot", page |-> "home.py", access_privilege_role |-> {"user"}],
     [name |-> "Personal ChatBot", page |-> "home.py", access_privilege_role |-> {"admin"}] >>

\* role labels a credentials file may attach to a user ("guest" is held by no app)
RoleNames == {"user", "admin", "guest"}

(* ---------------------------- Python values --------------------------- *)
\* st.session_state.get("roles"): None, or a list of role labels
NoneRoles == [kind |-> "None", v |-> {}]
AbsentRoles == [kind |-> "absent", v |-> {}]
ListRoles(s) == [kind |-> "list", v |-> s]
RoleValues == {NoneRoles} \cup {ListRoles(s) : s \in SUBSET RoleNames}

\* st.session_state.messages: absent until first initialised, then a list
AbsentMessages == [kind |-> "absent", v |-> << >>]
ListMessages(m) == [kind |-> "list", v |-> m]

\* accessible_apps / the pages handed to st.navigation: unbound until assigned
Unbound == [kind |-> "unbound", v |-> << >>]
Bound(s) == [kind |-> "list", v |-> s]

(* ------------------------------ login.py ------------------------------ *)
\* seeded fault: keys_to_clear also names the chat history key
keys_to_clear_messages == << "authentication_status", "chat_messages", "messages" >>

\* login.py 41
keys_to_clear == << "authentication_status", "chat_messages" >>

AbsentValue(key) ==
  CASE key = "roles" -> AbsentRoles
    [] key = "messages" -> AbsentMessages
    [] OTHER -> "absent"

IsPresent(s, key) == s[key] # AbsentValue(key)

RECURSIVE ClearKeys(_, _, _)
ClearKeys(s, keys, i) ==
  IF i > Len(keys) THEN s
  ELSE ClearKeys(IF IsPresent(s, keys[i]) THEN [s EXCEPT ![keys[i]] = AbsentValue(keys[i])] ELSE s,
                 keys, i + 1)

clear_session_state_on_logout(s) == ClearKeys(s, keys_to_clear, 1)

\* st.session_state.get(key): None for a key that is not there
Get(s, key) ==
  IF IsPresent(s, key) THEN s[key]
  ELSE IF key = "roles" THEN NoneRoles ELSE "None"

\* login.py 64-66: the loop over apps
RECURSIVE FilterLoop(_, _, _, _)
FilterLoop(apps, user_role, i, acc) ==
  IF i > Len(apps) THEN acc
  ELSE FilterLoop(apps, user_role, i + 1,
                  IF Cardinality(user_role \cap apps[i].access_privilege_role) > 0
                  THEN Append(acc, apps[i]) ELSE acc)

\* seeded fault: the intersection test is ">= 0"
RECURSIVE FilterLoopGeq(_, _, _, _)
FilterLoopGeq(apps, user_role, i, acc) ==
  IF i > Len(apps) THEN acc
  ELSE FilterLoopGeq(apps, user_role, i + 1,
                     IF Cardinality(user_role \cap apps[i].access_privilege_role) >= 0
                     THEN Append(acc, apps[i]) ELSE acc)

\* seeded fault: the admin shortcut is missing
AccessibleAppsNoAdmin(user_role) ==
  IF user_role.kind # "None" THEN FilterLoop(APPS, user_role.v, 1, << >>) ELSE << >>

AccessibleAppsGeq(user_role) ==
  IF user_role.kind # "None"
  THEN IF "admin" \in user_role.v THEN APPS ELSE FilterLoopGeq(APPS, user_role.v, 1, << >>)
  ELSE << >>

\* login.py 56-66
AccessibleApps(user_role) ==
  IF user_role.kind # "None"
  THEN IF "admin" \in user_role.v THEN APPS ELSE FilterLoop(APPS, user_role.v, 1, << >>)
  ELSE << >>

\* login.py 68-73: one st.Page per accessible app (defined, and called nowhere)
RECURSIVE PagesLoop(_, _, _)
PagesLoop(apps, i, acc) ==
  IF i > Len(apps) THEN acc ELSE PagesLoop(apps, i + 1, Append(acc, apps[i].page))

get_streamlit_pages(apps) == PagesLoop(apps, 1, << >>)

\* login.py 75-83: the dictionary handed to st.navigation
pages == << "home1.py" >>

(* --------------------------- Python strings --------------------------- *)
\* A text is a sequence of tokens: single characters ("a", " ", "\n", ...) and
\* whole literal pieces of the templates, none of which is whitespace.
Whitespace == {" ", "\n"}
Ellipsis == "..."
NoRelevantText == "No relevant text was found in the document."

Min2(a, b) == IF a < b THEN a ELSE b

\* str.replace("\n", " ")
RECURSIVE ReplaceIn(_, _, _)
ReplaceIn(s, lo, hi) ==
  IF lo > hi THEN << >>
  ELSE IF lo = hi THEN << IF s[lo] = "\n" THEN " " ELSE s[lo] >>
  ELSE LET mid == (lo + hi) \div 2 IN ReplaceIn(s, lo, mid) \o ReplaceIn(s, mid + 1, hi)

ReplaceNewlines(s) == ReplaceIn(s, 1, Len(s))

RECURSIVE LStripFrom(_, _)
LStripFrom(s, i) ==
  IF i > Len(s) THEN Len(s) + 1
  ELSE IF s[i] \in Whitespace THEN LStripFrom(s, i + 1) ELSE i

RECURSIVE RStripFrom(_, _)
RStripFrom(s, j) ==
  IF j < 1 THEN 0
  ELSE IF s[j] \in Whitespace THEN RStripFrom(s, j - 1) ELSE j

\* str.strip()
Strip(s) ==
  LET i == LStripFrom(s, 1)
  IN IF i > Len(s) THEN << >> ELSE SubSeq(s, i, RStripFrom(s, Len(s)))

\* str.rsplit(" ", 1)[0]: the text before the last space, the whole text without one
RSplitHead(s) ==
  LET sp == {i \in 1..Len(s) : s[i] = " "}
  IN IF sp = {} THEN s
     ELSE SubSeq(s, 1, (CHOOSE i \in sp : \A j \in sp : j <= i) - 1)

\* "sep".join(parts)
RECURSIVE Join(_, _, _)
Join(parts, sep, i) ==
  IF i > Len(parts) THEN << >>
  ELSE IF i = Len(parts) THEN parts[i]
  ELSE parts[i] \o sep \o Join(parts, sep, i + 1)

(* --------------------- pages/home1.py: the prompt --------------------- *)
\* f"chunk-{i}"
ChunkLabel(i) ==
  << "chunk-1", "chunk-2", "chunk-3", "chunk-4", "chunk-5", "chunk-6", "chunk-7", "chunk-8",
     "chunk-9" >>[i]

\* d.metadata.get("page", d.metadata.get("source", f"chunk-{i}"))
SourceOf(d, i) ==
  IF d.metadata.page # "absent" THEN d.metadata.page
  ELSE IF d.metadata.source # "absent" THEN d.metadata.source
  ELSE ChunkLabel(i)

\* home1.py 145-148
Snippet(d) ==
  LET snippet == Strip(ReplaceNewlines(d.page_content))
  IN IF Len(snippet) > SnippetLimit
     THEN Append(RSplitHead(SubSeq(snippet, 1, SnippetLimit)), Ellipsis)
     ELSE snippet

\* home1.py 142-149
RECURSIVE PartsLoop(_, _, _)
PartsLoop(docs, i, context_parts) ==
  IF i > Len(docs) THEN context_parts
  ELSE PartsLoop(docs, i + 1,
                 Append(context_parts,
                        << "[Source: ", SourceOf(docs[i], i), "]", "\n" >> \o Snippet(docs[i])))

ContextParts(docs) == PartsLoop(docs, 1, << >>)

ContextSeparator == << "\n", "\n", "---", "\n", "\n" >>

\* home1.py 151-153
ContextText(top_docs) ==
  LET context_text == Strip(Join(ContextParts(top_docs), ContextSeparator, 1))
  IN IF context_text = << >> THEN << NoRelevantText >> ELSE context_text

\* home1.py 156-161
TaskDescription(top_docs, user_input) ==
  << "You are provided with context ... Cite the source labels in your answer.", "\n", "\n",
     "CONTEXT:", "\n" >>
  \o ContextText(top_docs)
  \o << "\n", "\n", "QUESTION:", "\n", user_input, "\n", "\n",
        "Answer concisely and include source citations ..." >>

\* home1.py 130, 134, 137: at most five documents, in the retriever's order
TopDocs(returned) == SubSeq(returned, 1, Min2(TopK, Len(returned)))

(* ------------------------------- inputs ------------------------------- *)
\* os.getenv(...): None when the variable is absent, possibly the empty string
EnvValues == {"None", "", "sk-key"}
\* uploaded_file.name
UploadNames == {"a.pdf", "b.pdf"}
\* st.chat_input(...)
Questions == {"q1", "q2"}
\* the crew's result for a question
Answer(q) == IF q = "q1" THEN "answer to q1" ELSE "answer to q2"

\* the sequences over S of length n, and of length at most n
RECURSIVE SeqsOf(_, _)
SeqsOf(S, n) == IF n = 0 THEN {<< >>} ELSE {Append(q, x) : q \in SeqsOf(S, n - 1), x \in S}
SeqsUpTo(S, n) == UNION {SeqsOf(S, k) : k \in 0..n}

Doc(content, page, source) ==
  [page_content |-> content, metadata |-> [page |-> page, source |-> source]]

RECURSIVE BodyIn(_, _, _)
BodyIn(lo, hi, spaces) ==
  IF lo > hi THEN << >>
  ELSE IF lo = hi THEN << IF lo \in spaces THEN " " ELSE "a" >>
  ELSE LET mid == (lo + hi) \div 2 IN BodyIn(lo, mid, spaces) \o BodyIn(mid + 1, hi, spaces)

\* a text of n characters "a" with spaces at the given positions
Body(n, spaces) == BodyIn(1, n, spaces)

\* documents a retriever returns within a session run
SessionDocs == {Doc(<< >>, "0", "a.pdf"), Doc(<< "a", "\n", "a" >>, "absent", "absent")}
SessionReturned == SeqsUpTo(SessionDocs, MaxReturned)

\* documents fed to the prompt assembler on its own
ShortDocs == {Doc(<< " " >>, "0", "a.pdf"), Doc(<< "a", " ", "a" >>, "absent", "absent")}
Contents ==
  { << >>, << "\n", " " >>, << "a" >>, << " ", "a", "\n", "a", " " >>,
    Body(SnippetLimit, {}), Body(SnippetLimit + 1, {}), Body(SnippetLimit + 1, {SnippetLimit}),
    Body(SnippetLimit + 1, {SnippetLimit + 1}), Body(SnippetLimit + 1, {SnippetLimit \div 2}),
    Body(SnippetLimit + 2, {1, SnippetLimit + 2}), Body(SnippetLimit + 3, {2, 3}) }
Metadatas ==
  { [page |-> "0", source |-> "a.pdf"], [page |-> "absent", source |-> "a.pdf"],
    [page |-> "absent", source |-> "absent"] }
LongDocs == {[page_content |-> c, metadata |-> m] : c \in Contents, m \in Metadatas}
PromptReturned ==
  SeqsUpTo(ShortDocs, MaxDocs) \cup {<< d >> : d \in LongDocs}
  \cup {<< d, e >> : d \in LongDocs, e \in ShortDocs}

(* ------------------------------- state -------------------------------- *)
VARIABLES
  script,            \* the script this session's server runs: "login.py" or "home.py"
  env,               \* the process environment: [openai, gemini]
  ss,                \* st.session_state
  fs,                \* the paths that exist in the file system
  pc,                \* position of the current run: "idle", a step, "done"
  page,              \* the page script being run ("none" outside a page)
  uploaded_file,     \* st.file_uploader(...): "None" or the file's name
  user_input,        \* st.chat_input(...): "None" or the question
  returned,          \* what the retriever call returned
  top_docs,          \* home1.py: top_docs
  task_description,  \* home1.py: task_description (empty until built)
  accessible_apps,   \* login.py: accessible_apps
  nav,               \* login.py: the pages handed to st.navigation
  shown,             \* st.error / st.warning / st.info messages of this run
  calls,             \* the external calls of this run, in order
  exc,               \* "none", "stop" (st.stop()), "error" (an exception propagating)
  raised,            \* the calls of this run that raised an exception
  session_pc,        \* two sessions on home1.py: each session's position
  session_file,      \* each session's uploaded_file.name ("None" without an upload)
  session_pages,     \* what each session's loader.load() read ("unset" before it)
  session_exc,       \* each session's "none", "stop" or "error"
  tempdir            \* the files in tempfile.gettempdir(): [path, content]

\* the state of the two concurrent sessions
concVars == << session_pc, session_file, session_pages, session_exc, tempdir >>

vars ==
  << script, env, ss, fs, pc, page, uploaded_file, user_input, returned, top_docs,
     task_description, accessible_apps, nav, shown, calls, exc, raised, concVars >>

\* no second session: both session threads are idle and the temp directory is empty
SessionsIdle ==
  /\ session_pc = [s1 |-> "idle", s2 |-> "idle"]
  /\ session_file = [s1 |-> "None", s2 |-> "None"]
  /\ session_pages = [s1 |-> "unset", s2 |-> "unset"]
  /\ session_exc = [s1 |-> "none", s2 |-> "none"]
  /\ tempdir = {}

runLocals ==
  << page, uploaded_file, user_input, returned, top_docs, task_description, accessible_apps,
     nav, shown, calls, exc, raised >>

EmptySession ==
  [authentication_status |-> "absent", roles |-> AbsentRoles, session_id |-> "absent",
   messages |-> AbsentMessages, chat_messages |-> "absent", initialized |-> "absent",
   vector_db_initialized |-> "absent"]

FreshRun ==
  /\ uploaded_file' = "None"
  /\ user_input' = "None"
  /\ returned' = << >>
  /\ top_docs' = << >>
  /\ task_description' = << >>
  /\ accessible_apps' = Unbound
  /\ nav' = Unbound
  /\ shown' = {}
  /\ calls' = << >>
  /\ exc' = "none"
  /\ raised' = {}

Init ==
  /\ script \in {"login.py", "home.py"}
  /\ env \in [openai : EnvValues, gemini : EnvValues]
  /\ ss = EmptySession
  /\ fs = {}
  /\ pc = "idle"
  /\ page = "none"
  /\ uploaded_file = "None"
  /\ user_input = "None"
  /\ returned = << >>
  /\ top_docs = << >>
  /\ task_description = << >>
  /\ accessible_apps = Unbound
  /\ nav = Unbound
  /\ shown = {}
  /\ calls = << >>
  /\ exc = "none"
  /\ raised = {}
  /\ SessionsIdle

\* st.error, st.warning, st.info
Error(text) == << "error", text >>
Warning(text) == << "warning", text >>
Info(text) == << "info", text >>

\* an exception leaves the script: a step raised outside every try/except
Raise(call) ==
  /\ calls' = Append(calls, call)
  /\ raised' = raised \cup {call}
  /\ exc' = "error"

Outcomes == {"ok", "raise"}

(* ------------------------------ login.py ------------------------------ *)
\* the browser (re)runs the script from the top
StartLogin ==
  /\ script = "login.py"
  /\ pc \in {"idle", "done"}
  /\ FreshRun
  /\ page' = "none"
  /\ pc' = "lg_config"
  /\ UNCHANGED << concVars, script, env, ss, fs >>

\* login.py 26, utils.get_config: no try/except around it
LgConfig ==
  /\ pc = "lg_config"
  /\ \E o \in Outcomes :
       IF o = "ok"
       THEN /\ calls' = Append(calls, "get_config")
            /\ pc' = "lg_auth"
            /\ UNCHANGED << exc, raised >>
       ELSE /\ Raise("get_config")
            /\ pc' = "done"
  /\ UNCHANGED << concVars, script, env, ss, fs, page, uploaded_file, user_input, returned, top_docs,
                  task_description, accessible_apps, nav, shown >>

\* login.py 28-37, stauth.Authenticate and the session id
LgAuthenticate ==
  /\ pc = "lg_auth"
  /\ \E o \in Outcomes :
       IF o = "ok"
       THEN /\ calls' = Append(calls, "stauth.Authenticate")
            /\ ss' = IF ss.session_id = "absent" THEN [ss EXCEPT !.session_id = "uuid"] ELSE ss
            /\ pc' = "lg_login"
            /\ UNCHANGED << exc, raised >>
       ELSE /\ Raise("stauth.Authenticate")
            /\ pc' = "done"
            /\ UNCHANGED ss
  /\ UNCHANGED << concVars, script, env, fs, page, uploaded_file, user_input, returned, top_docs,
                  task_description, accessible_apps, nav, shown >>

\* login.py 46, authenticator.login: the library sets authentication_status and roles
LgLogin ==
  /\ pc = "lg_login"
  /\ \E st \in {"True", "False", "None"}, r \in RoleValues :
       ss' = [ss EXCEPT !.authentication_status = st,
                        !.roles = IF st = "True" THEN r ELSE NoneRoles]
  /\ calls' = Append(calls, "authenticator.login")
  /\ pc' = "lg_branch"
  /\ UNCHANGED << concVars, script, env, fs, page, uploaded_file, user_input, returned, top_docs,
                  task_description, accessible_apps, nav, shown, exc, raised >>

\* login.py 48-54: the welcome line joins the roles, then the logout button
LgWelcome ==
  /\ pc = "lg_branch"
  /\ Get(ss, "authentication_status") = "True"
  /\ IF Get(ss, "roles").kind = "list"
     THEN /\ pc' = "lg_filter"
          /\ UNCHANGED << calls, exc, raised >>
     ELSE /\ Raise("str.join")
          /\ pc' = "done"
  /\ UNCHANGED << concVars, script, env, ss, fs, page, uploaded_file, user_input, returned, top_docs,
                  task_description, accessible_apps, nav, shown >>

\* login.py 56-66
LgFilter ==
  /\ pc = "lg_filter"
  /\ accessible_apps' = Bound(AccessibleApps(Get(ss, "roles")))
  /\ pc' = "lg_nav"
  /\ UNCHANGED << concVars, script, env, ss, fs, page, uploaded_file, user_input, returned, top_docs,
                  task_description, nav, shown, calls, exc, raised >>

\* login.py 75-86: st.navigation(pages), page.run()
LgNavigate ==
  /\ pc = "lg_nav"
  /\ nav' = Bound(pages)
  /\ page' = "home1.py"
  /\ pc' = "h1_key"
  /\ UNCHANGED << concVars, script, env, ss, fs, uploaded_file, user_input, returned, top_docs,
                  task_description, accessible_apps, shown, calls, exc, raised >>

\* login.py 89-90
LgIncorrect ==
  /\ pc = "lg_branch"
  /\ Get(ss, "authentication_status") = "False"
  /\ shown' = shown \cup {Error("Username/password is incorrect")}
  /\ pc' = "done"
  /\ UNCHANGED << concVars, script, env, ss, fs, page, uploaded_file, user_input, returned, top_docs,
                  task_description, accessible_apps, nav, calls, exc, raised >>

\* login.py 92-94
LgPrompt ==
  /\ pc = "lg_branch"
  /\ Get(ss, "authentication_status") = "None"
  /\ shown' = shown \cup {Info("Please enter your username and password")}
  /\ ss' = clear_session_state_on_logout(ss)
  /\ pc' = "done"
  /\ UNCHANGED << concVars, script, env, fs, page, uploaded_file, user_input, returned, top_docs,
                  task_description, accessible_apps, nav, calls, exc, raised >>

(* --------------------------- pages/home1.py --------------------------- *)
\* home1.py 36-37, home.py 24
TempPath(p, name) == [dir |-> IF p = "home1.py" THEN "tempdir" ELSE "cwd", name |-> name]

AppendMessage(s, role, content) ==
  [s EXCEPT !.messages = ListMessages(Append(s.messages.v, [role |-> role, content |-> content]))]

\* "if 'messages' not in st.session_state: st.session_state.messages = []"
InitMessages(s) == IF IsPresent(s, "messages") THEN s ELSE [s EXCEPT !.messages = ListMessages(<< >>)]

\* seeded fault: only an unset key halts the page
KeyMissingNoneOnly(k) == k = "None"

\* "if not OPENAI_API_KEY", "if not GEMINI_API_KEY"
KeyMissing(k) == k = "None" \/ k = ""

\* home1.py 20-29
H1KeyCheck ==
  /\ pc = "h1_key"
  /\ IF KeyMissing(env.openai)
     THEN /\ shown' = shown \cup {Error("OpenAI API key not found")}
          /\ exc' = "stop"
          /\ pc' = "done"
          /\ UNCHANGED ss
     ELSE /\ ss' = IF IsPresent(ss, "initialized") THEN ss
                   ELSE [ss EXCEPT !.initialized = "False", !.vector_db_initialized = "absent"]
          /\ pc' = "h1_upload"
          /\ UNCHANGED << shown, exc >>
  /\ UNCHANGED << concVars, script, env, fs, page, uploaded_file, user_input, returned, top_docs,
                  task_description, accessible_apps, nav, calls, raised >>

\* home1.py 32-34, 184-185
H1Upload ==
  /\ pc = "h1_upload"
  /\ \E f \in {"None"} \cup UploadNames :
       /\ uploaded_file' = f
       /\ IF f = "None"
          THEN /\ shown' = shown \cup {Info("Please upload a PDF file")}
               /\ pc' = "done"
          ELSE /\ pc' = "h1_write"
               /\ UNCHANGED shown
  /\ UNCHANGED << concVars, script, env, ss, fs, page, user_input, returned, top_docs, task_description,
                  accessible_apps, nav, calls, exc, raised >>

\* open(temp_path, "wb") and f.write: open may fail before the file exists, write after
WriteTemp(next, final) ==
  /\ \E o \in {"ok", "open raises", "write raises"} :
       /\ fs' = IF o = "open raises" THEN fs ELSE fs \cup {TempPath(page, uploaded_file)}
       /\ IF o = "ok"
          THEN /\ calls' = Append(calls, "open")
               /\ pc' = next
               /\ UNCHANGED << exc, raised >>
          ELSE /\ Raise("open")
               /\ pc' = final
  /\ UNCHANGED << concVars, script, env, ss, page, uploaded_file, user_input, returned, top_docs,
                  task_description, accessible_apps, nav, shown >>

\* a call outside every inner try/except: its exception propagates through finally
Uncaught(call, next, final) ==
  /\ \E o \in Outcomes :
       IF o = "ok"
       THEN /\ calls' = Append(calls, call)
            /\ pc' = next
            /\ UNCHANGED << exc, raised >>
       ELSE /\ Raise(call)
            /\ pc' = final
  /\ UNCHANGED << concVars, script, env, ss, fs, page, uploaded_file, user_input, returned, top_docs,
                  task_description, accessible_apps, nav, shown >>

\* try: call  except Exception as e: st.error(msg); st.stop()
CaughtStop(call, msg, next, final) ==
  /\ calls' = Append(calls, call)
  /\ \E o \in Outcomes :
       IF o = "ok"
       THEN /\ pc' = next
            /\ UNCHANGED << shown, exc, raised >>
       ELSE /\ shown' = shown \cup {Error(msg)}
            /\ raised' = raised \cup {call}
            /\ exc' = "stop"
            /\ pc' = final
  /\ UNCHANGED << concVars, script, env, ss, fs, page, uploaded_file, user_input, returned, top_docs,
                  task_description, accessible_apps, nav >>

\* home1.py 41-43
H1Write == pc = "h1_write" /\ WriteTemp("h1_load", "h1_finally")

\* home1.py 50-51
H1Load == pc = "h1_load" /\ Uncaught("PyPDFLoader", "h1_split", "h1_finally")

\* home1.py 53-62
H1Split == pc = "h1_split" /\ Uncaught("split_documents", "h1_embed", "h1_finally")

\* home1.py 65-71
H1Embed ==
  /\ pc = "h1_embed"
  /\ CaughtStop("OpenAIEmbeddings", "Failed to initialize OpenAI embeddings", "h1_index",
                "h1_finally")

\* home1.py 74-81
H1Index ==
  /\ pc = "h1_index"
  /\ CaughtStop("FAISS.from_documents", "Failed to build vector store", "h1_retriever",
                "h1_finally")

\* home1.py 84-87
H1Retriever == pc = "h1_retriever" /\ Uncaught("as_retriever", "h1_rag", "h1_finally")

\* home1.py 90-98: a failure is a warning, the run goes on without the tool
H1RagTool ==
  /\ pc = "h1_rag"
  /\ calls' = Append(calls, "RagTool")
  /\ \E o \in Outcomes :
       /\ shown' = IF o = "ok" THEN shown ELSE shown \cup {Warning("RagTool init failed")}
       /\ raised' = IF o = "ok" THEN raised ELSE raised \cup {"RagTool"}
  /\ pc' = "h1_chat"
  /\ UNCHANGED << concVars, script, env, ss, fs, page, uploaded_file, user_input, returned, top_docs,
                  task_description, accessible_apps, nav, exc >>

\* home1.py 100-122: the history is initialised, the agent is made, the input is read
H1Chat ==
  /\ pc = "h1_chat"
  /\ ss' = InitMessages(ss)
  /\ \E o \in Outcomes :
       IF o = "ok"
       THEN /\ calls' = Append(calls, "Agent")
            /\ UNCHANGED << exc, raised >>
            /\ \E q \in {"None"} \cup Questions :
                 /\ q # "None" => Len(ss'.messages.v) < MaxMessages
                 /\ user_input' = q
                 /\ pc' = IF q = "None" THEN "h1_finally" ELSE "h1_ask"
       ELSE /\ Raise("Agent")
            /\ pc' = "h1_finally"
            /\ UNCHANGED user_input
  /\ UNCHANGED << concVars, script, env, fs, page, uploaded_file, returned, top_docs, task_description,
                  accessible_apps, nav, shown >>

\* home1.py 123-124
H1Ask ==
  /\ pc = "h1_ask"
  /\ ss' = AppendMessage(ss, "user", user_input)
  /\ pc' = "h1_retrieve"
  /\ UNCHANGED << concVars, script, env, fs, runLocals >>

\* home1.py 127-138, 174-175: the retriever call, by whichever method the library has
\* the calls of a retrieval that raised before its last call was made
Fallen(way) == {way[i] : i \in 1..(Len(way) - 1)}

RetrieveFrom(lists) ==
  /\ pc = "h1_retrieve"
  /\ \E way \in {<< << "get_relevant_documents" >>, "ok" >>,
                 << << "get_relevant_documents" >>, "raise" >>,
                 << << "similarity_search" >>, "ok" >>,
                 << << "similarity_search", "similarity_search_with_score" >>, "ok" >>,
                 << << "similarity_search", "similarity_search_with_score" >>, "raise" >>} :
       /\ calls' = calls \o way[1]
       /\ IF way[2] = "ok"
          THEN /\ \E r \in lists : returned' = r /\ top_docs' = TopDocs(r)
               /\ pc' = "h1_assemble"
               /\ raised' = raised \cup Fallen(way[1])
               /\ UNCHANGED shown
          ELSE /\ shown' = shown \cup {Error("Error processing question")}
               /\ raised' = raised \cup Fallen(way[1]) \cup {way[1][Len(way[1])]}
               /\ pc' = "h1_finally"
               /\ UNCHANGED << returned, top_docs >>
  /\ UNCHANGED << concVars, script, env, ss, fs, page, uploaded_file, user_input, task_description,
                  accessible_apps, nav, exc >>

H1Retrieve == RetrieveFrom(SessionReturned)

\* home1.py 141-161
H1Assemble ==
  /\ pc = "h1_assemble"
  /\ task_description' = TaskDescription(top_docs, user_input)
  /\ pc' = "h1_kickoff"
  /\ UNCHANGED << concVars, script, env, ss, fs, page, uploaded_file, user_input, returned, top_docs,
                  accessible_apps, nav, shown, calls, exc, raised >>

\* Task(...), Crew(...), crew.kickoff() inside try/except Exception: the calls made
\* when the one named fails raises ("none": all three return)
CrewCalls(fails) ==
  CASE fails = "Task" -> << "Task" >>
    [] fails = "Crew" -> << "Task", "Crew" >>
    [] OTHER -> << "Task", "Crew", "crew.kickoff" >>

\* home1.py 164-175, home.py 101-114
Kickoff(msg, final) ==
  /\ \E fails \in {"none", "Task", "Crew", "crew.kickoff"} :
       /\ calls' = calls \o CrewCalls(fails)
       /\ IF fails = "none"
          THEN /\ ss' = AppendMessage(ss, "assistant", Answer(user_input))
               /\ UNCHANGED << shown, raised >>
          ELSE /\ shown' = shown \cup {Error(msg)}
               /\ raised' = raised \cup {fails}
               /\ UNCHANGED ss
  /\ pc' = final
  /\ UNCHANGED << concVars, script, env, fs, page, uploaded_file, user_input, returned, top_docs,
                  task_description, accessible_apps, nav, exc >>

H1Kickoff == pc = "h1_kickoff" /\ Kickoff("Error processing question", "h1_finally")

\* seeded fault: the clean-up is skipped when the run was halted by st.stop()
RemoveTempNotOnStop(path) ==
  /\ IF path \in fs /\ exc # "stop"
     THEN /\ calls' = Append(calls, "os.remove")
          /\ \E o \in Outcomes :
               /\ fs' = IF o = "ok" THEN fs \ {path} ELSE fs
               /\ raised' = IF o = "ok" THEN raised ELSE raised \cup {"os.remove"}
     ELSE UNCHANGED << fs, calls, raised >>

\* finally: if os.path.exists(temp_path): try: os.remove(temp_path) except Exception: pass
RemoveTemp(path) ==
  /\ IF path \in fs
     THEN /\ calls' = Append(calls, "os.remove")
          /\ \E o \in Outcomes :
               /\ fs' = IF o = "ok" THEN fs \ {path} ELSE fs
               /\ raised' = IF o = "ok" THEN raised ELSE raised \cup {"os.remove"}
     ELSE UNCHANGED << fs, calls, raised >>

Finally ==
  /\ RemoveTemp(TempPath(page, uploaded_file))
  /\ pc' = "done"
  /\ UNCHANGED << concVars, script, env, ss, page, uploaded_file, user_input, returned, top_docs,
                  task_description, accessible_apps, nav, shown, exc >>

\* home1.py 177-183
H1Finally == pc = "h1_finally" /\ Finally

(* ---------------------------- pages/home.py --------------------------- *)
StartHome ==
  /\ script = "home.py"
  /\ pc \in {"idle", "done"}
  /\ FreshRun
  /\ page' = "home.py"
  /\ pc' = "h0_key"
  /\ UNCHANGED << concVars, script, env, ss, fs >>

\* home.py 15-18
H0KeyCheck ==
  /\ pc = "h0_key"
  /\ IF KeyMissing(env.gemini)
     THEN /\ shown' = shown \cup {Error("GEMINI_API_KEY not set")}
          /\ exc' = "stop"
          /\ pc' = "done"
     ELSE /\ pc' = "h0_upload"
          /\ UNCHANGED << shown, exc >>
  /\ UNCHANGED << concVars, script, env, ss, fs, page, uploaded_file, user_input, returned, top_docs,
                  task_description, accessible_apps, nav, calls, raised >>

\* home.py 21-23, 122-123
H0Upload ==
  /\ pc = "h0_upload"
  /\ \E f \in {"None"} \cup UploadNames :
       /\ uploaded_file' = f
       /\ IF f = "None"
          THEN /\ shown' = shown \cup {Info("Please upload a PDF file")}
               /\ pc' = "done"
          ELSE /\ pc' = "h0_write"
               /\ UNCHANGED shown
  /\ UNCHANGED << concVars, script, env, ss, fs, page, user_input, returned, top_docs, task_description,
                  accessible_apps, nav, calls, exc, raised >>

\* home.py 27-29
H0Write == pc = "h0_write" /\ WriteTemp("h0_creds", "h0_finally")

\* home.py 32-56: only DefaultCredentialsError is caught
H0Credentials ==
  /\ pc = "h0_creds"
  /\ \E o \in {"ok", "DefaultCredentialsError", "raise"} :
       /\ calls' = Append(calls, "GoogleGenerativeAIEmbeddings")
       /\ CASE o = "ok" ->
                 /\ ss' = IF IsPresent(ss, "vector_db_initialized") THEN ss
                          ELSE [ss EXCEPT !.vector_db_initialized = "False"]
                 /\ pc' = "h0_rag"
                 /\ UNCHANGED << shown, exc, raised >>
            [] o = "DefaultCredentialsError" ->
                 /\ shown' = shown \cup {Error("Google Application Default Credentials not found")}
                 /\ raised' = raised \cup {"GoogleGenerativeAIEmbeddings"}
                 /\ exc' = "stop"
                 /\ pc' = "h0_finally"
                 /\ UNCHANGED ss
            [] OTHER ->
                 /\ raised' = raised \cup {"GoogleGenerativeAIEmbeddings"}
                 /\ exc' = "error"
                 /\ pc' = "h0_finally"
                 /\ UNCHANGED << ss, shown >>
  /\ UNCHANGED << concVars, script, env, fs, page, uploaded_file, user_input, returned, top_docs,
                  task_description, accessible_apps, nav >>

\* home.py 59-66
H0RagTool ==
  /\ pc = "h0_rag"
  /\ CaughtStop("RagTool", "Failed to initialize RAG tool", "h0_add", "h0_finally")

\* home.py 68-75
H0Add ==
  /\ pc = "h0_add"
  /\ IF ss.vector_db_initialized # "True"
     THEN /\ calls' = Append(calls, "rag_tool.add")
          /\ \E o \in Outcomes :
               IF o = "ok"
               THEN /\ ss' = [ss EXCEPT !.vector_db_initialized = "True"]
                    /\ pc' = "h0_chat"
                    /\ UNCHANGED << shown, exc, raised >>
               ELSE /\ shown' = shown \cup {Error("Error loading PDF")}
                    /\ raised' = raised \cup {"rag_tool.add"}
                    /\ exc' = "stop"
                    /\ pc' = "h0_finally"
                    /\ UNCHANGED ss
     ELSE /\ pc' = "h0_chat"
          /\ UNCHANGED << ss, calls, shown, exc, raised >>
  /\ UNCHANGED << concVars, script, env, fs, page, uploaded_file, user_input, returned, top_docs,
                  task_description, accessible_apps, nav >>

\* home.py 78-96: the agent is made first, then the history is initialised
H0Chat ==
  /\ pc = "h0_chat"
  /\ \E o \in Outcomes :
       IF o = "ok"
       THEN /\ calls' = Append(calls, "Agent")
            /\ ss' = InitMessages(ss)
            /\ UNCHANGED << exc, raised >>
            /\ \E q \in {"None"} \cup Questions :
                 /\ q # "None" => Len(ss'.messages.v) < MaxMessages
                 /\ user_input' = q
                 /\ pc' = IF q = "None" THEN "h0_finally" ELSE "h0_ask"
       ELSE /\ Raise("Agent")
            /\ pc' = "h0_finally"
            /\ UNCHANGED << ss, user_input >>
  /\ UNCHANGED << concVars, script, env, fs, page, uploaded_file, returned, top_docs, task_description,
                  accessible_apps, nav, shown >>

\* home.py 97-98
H0Ask ==
  /\ pc = "h0_ask"
  /\ ss' = AppendMessage(ss, "user", user_input)
  /\ pc' = "h0_kickoff"
  /\ UNCHANGED << concVars, script, env, fs, runLocals >>

\* home.py 100-114
H0Kickoff == pc = "h0_kickoff" /\ Kickoff("Error processing your question", "h0_finally")

\* home.py 115-121
H0Finally == pc = "h0_finally" /\ Finally

(* --------------------------- specifications --------------------------- *)
Next ==
  \/ StartLogin \/ LgConfig \/ LgAuthenticate \/ LgLogin \/ LgWelcome \/ LgFilter
  \/ LgNavigate \/ LgIncorrect \/ LgPrompt
  \/ H1KeyCheck \/ H1Upload \/ H1Write \/ H1Load \/ H1Split \/ H1Embed \/ H1Index
  \/ H1Retriever \/ H1RagTool \/ H1Chat \/ H1Ask \/ H1Retrieve \/ H1Assemble \/ H1Kickoff
  \/ H1Finally
  \/ StartHome \/ H0KeyCheck \/ H0Upload \/ H0Write \/ H0Credentials \/ H0RagTool \/ H0Add
  \/ H0Chat \/ H0Ask \/ H0Kickoff \/ H0Finally

Spec == Init /\ [][Next]_vars

\* the prompt assembler on its own: a question has been asked in home1.py and the
\* retriever is about to answer with any of the lists of PromptReturned
InitPrompt ==
  /\ script = "login.py"
  /\ env = [openai |-> "sk-key", gemini |-> "None"]
  /\ \E q \in Questions :
       /\ user_input = q
       /\ ss = [EmptySession EXCEPT !.authentication_status = "True",
                                    !.roles = ListRoles({"user"}),
                                    !.session_id = "uuid",
                                    !.initialized = "False",
                                    !.messages = ListMessages(<< [role |-> "user", content |-> q] >>)]
  /\ uploaded_file = "a.pdf"
  /\ fs = {TempPath("home1.py", "a.pdf")}
  /\ pc = "h1_retrieve"
  /\ page = "home1.py"
  /\ returned = << >>
  /\ top_docs = << >>
  /\ task_description = << >>
  /\ accessible_apps = Bound(AccessibleApps(ListRoles({"user"})))
  /\ nav = Bound(pages)
  /\ shown = {}
  /\ calls = << "get_config", "stauth.Authenticate", "open", "PyPDFLoader", "split_documents",
                "OpenAIEmbeddings", "FAISS.from_documents", "as_retriever", "RagTool", "Agent" >>
  /\ exc = "none"
  /\ raised = {}
  /\ SessionsIdle

PromptRetrieve == RetrieveFrom(PromptReturned)

NextPrompt == PromptRetrieve \/ H1Assemble

SpecPrompt == InitPrompt /\ [][NextPrompt]_vars

(* ------------------- two sessions on the upload page ------------------- *)
\* each browser session runs home1.py in its own thread of the one server process; the
\* threads share tempfile.gettempdir() and nothing in the script serialises them
Sessions == {"s1", "s2"}

Other(s) == IF s = "s1" THEN "s2" ELSE "s1"

\* home1.py 36-37: the session's temp_path, built from uploaded_file.name alone
temp_path(s) == TempPath("home1.py", session_file[s])

\* the file at a path (at most one), os.path.exists
FileAt(p) == {h \in tempdir : h.path = p}

Exists(p) == FileAt(p) # {}

\* the bytes a write leaves in a file that holds content c: the writer's own upload when
\* the file was empty or no longer than the upload, otherwise its upload followed by the
\* tail of what was there
Overwritten(c, s) == IF c \in {"empty", s} THEN {s} ELSE {s, "mixed"}

\* a session's step to the finally block with an exception or st.stop() pending
SessionFails(s, how) ==
  /\ session_pc' = [session_pc EXCEPT ![s] = "finally"]
  /\ session_exc' = [session_exc EXCEPT ![s] = how]

\* home1.py 32-37: a run of the script starts; without an upload it ends at line 185
SUpload(s) ==
  /\ session_pc[s] \in {"idle", "done"}
  /\ \E f \in UploadNames \cup {"None"} :
       /\ session_file' = [session_file EXCEPT ![s] = f]
       /\ session_pc' = [session_pc EXCEPT ![s] = IF f = "None" THEN "done" ELSE "open"]
  /\ session_pages' = [session_pages EXCEPT ![s] = "unset"]
  /\ session_exc' = [session_exc EXCEPT ![s] = "none"]
  /\ UNCHANGED << tempdir, script, env, ss, fs, pc, runLocals >>

\* home1.py 42: open(temp_path, "wb") creates the file or truncates the one that is there
SOpen(s) ==
  /\ session_pc[s] = "open"
  /\ \/ /\ tempdir' = (tempdir \ FileAt(temp_path(s)))
                        \cup {[path |-> temp_path(s), content |-> "empty"]}
        /\ session_pc' = [session_pc EXCEPT ![s] = "write"]
        /\ UNCHANGED session_exc
     \/ /\ SessionFails(s, "error")
        /\ UNCHANGED tempdir
  /\ UNCHANGED << session_file, session_pages, script, env, ss, fs, pc, runLocals >>

\* home1.py 43: f.write(uploaded_file.getbuffer()) through the handle of line 42; when the
\* path was removed meanwhile the bytes go to the unlinked file and the path stays absent
SWrite(s) ==
  /\ session_pc[s] = "write"
  /\ \/ /\ IF Exists(temp_path(s))
             THEN \E h \in FileAt(temp_path(s)) : \E c \in Overwritten(h.content, s) :
                    tempdir' = (tempdir \ {h}) \cup {[path |-> h.path, content |-> c]}
             ELSE UNCHANGED tempdir
        /\ session_pc' = [session_pc EXCEPT ![s] = "load"]
        /\ UNCHANGED session_exc
     \/ /\ SessionFails(s, "error")
        /\ UNCHANGED tempdir
  /\ UNCHANGED << session_file, session_pages, script, env, ss, fs, pc, runLocals >>

\* home1.py 50-51: PyPDFLoader(temp_path).load() reads whatever is at the path now; it
\* raises when the path is absent or the file is empty, and may raise on any file
SLoad(s) ==
  /\ session_pc[s] = "load"
  /\ \/ /\ \E h \in FileAt(temp_path(s)) :
             /\ h.content # "empty"
             /\ session_pages' = [session_pages EXCEPT ![s] = h.content]
        /\ session_pc' = [session_pc EXCEPT ![s] = "process"]
        /\ UNCHANGED session_exc
     \/ /\ SessionFails(s, "error")
        /\ UNCHANGED session_pages
  /\ UNCHANGED << session_file, tempdir, script, env, ss, fs, pc, runLocals >>

\* home1.py 53-175: chunking, embeddings, index, agent and chat; none of it touches the
\* temp file; it falls through, stops (71, 81) or raises
SProcess(s) ==
  /\ session_pc[s] = "process"
  /\ \E how \in {"none", "stop", "error"} : SessionFails(s, how)
  /\ UNCHANGED << session_file, session_pages, tempdir, script, env, ss, fs, pc, runLocals >>

\* home1.py 177-183: the finally block removes whatever is at temp_path; a remove that
\* raises is suppressed
SFinally(s) ==
  /\ session_pc[s] = "finally"
  /\ \/ tempdir' = tempdir \ FileAt(temp_path(s))
     \/ UNCHANGED tempdir
  /\ session_pc' = [session_pc EXCEPT ![s] = "done"]
  /\ UNCHANGED << session_file, session_pages, session_exc, script, env, ss, fs, pc, runLocals >>

\* both sessions are logged in and about to run home1.py with the API key set
InitSessions ==
  /\ script = "login.py"
  /\ env = [openai |-> "sk-key", gemini |-> "None"]
  /\ ss = EmptySession
  /\ fs = {}
  /\ pc = "idle"
  /\ page = "none"
  /\ uploaded_file = "None"
  /\ user_input = "None"
  /\ returned = << >>
  /\ top_docs = << >>
  /\ task_description = << >>
  /\ accessible_apps = Unbound
  /\ nav = Unbound
  /\ shown = {}
  /\ calls = << >>
  /\ exc = "none"
  /\ raised = {}
  /\ SessionsIdle

NextSessions ==
  \E s \in Sessions :
    \/ SUpload(s)
    \/ SOpen(s)
    \/ SWrite(s)
    \/ SLoad(s)
    \/ SProcess(s)
    \/ SFinally(s)

SpecSessions == InitSessions /\ [][NextSessions]_vars

(* ------------------------------- claims ------------------------------- *)
Range(f) == {f[i] : i \in DOMAIN f}
Authenticated == Get(ss, "authentication_status") = "True"
Granted(app) == accessible_apps.kind = "list" /\ app \in Range(accessible_apps.v)
Intersects(app, r) == app.access_privilege_role \cap r # {}

\* C1: a user who is authenticated and not admin is granted no app whose
\* access_privilege_role shares no role with the user's roles (fail closed); a user
\* whose roles value is None is granted none at all.
C1_FailClosed ==
  LET r == Get(ss, "roles")
  IN (Authenticated /\ "admin" \notin r.v) =>
       \A i \in 1..Len(APPS) : ~Intersects(APPS[i], r.v) => ~Granted(APPS[i])

C1_Witness ==
  /\ Authenticated
  /\ Get(ss, "roles") = ListRoles({"user", "guest"})
  /\ accessible_apps = Bound(<< APPS[1] >>)

\* C2: whenever "admin" is among the roles of the authenticated user, the filter's
\* result accessible_apps is the whole of conf.APPS, whatever the other roles are.
C2_AdminAll ==
  (Authenticated /\ accessible_apps.kind = "list" /\ "admin" \in Get(ss, "roles").v)
    => accessible_apps.v = APPS

C2_Witness ==
  /\ Authenticated
  /\ Get(ss, "roles") = ListRoles({"admin", "guest"})
  /\ accessible_apps = Bound(APPS)
  /\ pc = "lg_nav"

RunEnded == pc = "done"
Uploaded == uploaded_file # "None"

\* C3 as stated: after every run in which a file was uploaded, however the run ended,
\* no file exists at temp_path.
C3_Removed == (RunEnded /\ Uploaded) => TempPath(page, uploaded_file) \notin fs

\* C3 amended: after every run in which a file was uploaded, however the run ended,
\* no file exists at temp_path unless the os.remove of the finally block itself raised
\* (that exception is suppressed and the file stays).
C3_RemovedUnlessRemoveRaised ==
  (RunEnded /\ Uploaded /\ "os.remove" \notin raised) => TempPath(page, uploaded_file) \notin fs

\* a run that wrote the file, was halted by st.stop() after a failed index build, and
\* removed the file on the way out
C3_Witness ==
  /\ RunEnded /\ Uploaded
  /\ exc = "stop"
  /\ "FAISS.from_documents" \in raised
  /\ "os.remove" \in Range(calls) /\ "os.remove" \notin raised
  /\ TempPath(page, uploaded_file) \notin fs

\* the calls the key check stands in front of
GuardedCalls ==
  { "open", "PyPDFLoader", "split_documents", "OpenAIEmbeddings", "GoogleGenerativeAIEmbeddings",
    "FAISS.from_documents", "as_retriever", "RagTool", "rag_tool.add", "Agent",
    "get_relevant_documents", "similarity_search", "similarity_search_with_score", "Task",
    "Crew", "crew.kickoff" }

KeyOf(p) == IF p = "home1.py" THEN env.openai ELSE env.gemini

\* C4: in a page run whose API key (OPENAI_API_KEY in home1.py, GEMINI_API_KEY in
\* home.py) is unset or empty, no file is written and none of the loader, embedding,
\* vector-store, RagTool, Agent, Task or Crew calls is made, and the run ends halted
\* with an error message shown.
C4_HaltBeforeCalls ==
  (page # "none" /\ KeyOf(page) \in {"None", ""}) =>
     /\ Range(calls) \cap GuardedCalls = {}
     /\ fs = {}
     /\ uploaded_file = "None"
     /\ pc \in {"h1_key", "h0_key", "done"}
     /\ RunEnded => (exc = "stop" /\ \E m \in shown : m[1] = "error")

C4_Witness ==
  /\ page = "home1.py" /\ env.openai = "" /\ RunEnded /\ exc = "stop"
  /\ shown = {Error("OpenAI API key not found")}

\* C5 as stated: a page is handed to st.navigation only if the role filter granted an
\* app with that page; in particular a user granted no app gets no page.
C5_NavigationFiltered ==
  nav.kind = "list" =>
    \A i \in 1..Len(nav.v) : \E k \in 1..Len(accessible_apps.v) : accessible_apps.v[k].page = nav.v[i]

\* the call sites the error-handling design names
ErrorSites ==
  { "get_config", "stauth.Authenticate", "GoogleGenerativeAIEmbeddings", "OpenAIEmbeddings",
    "FAISS.from_documents", "get_relevant_documents", "similarity_search_with_score", "Task",
    "Crew", "crew.kickoff" }

Count(log, c) == Cardinality({i \in 1..Len(log) : log[i] = c})
ErrorShown == \E m \in shown : m[1] = "error"

\* C6 as stated: when a call of credential initialisation, embedding-model
\* initialisation, index build, retrieval or agent execution raises, the run ends with
\* an error message shown, no exception leaves the script, and the call was made once.
C6_ErrorsCaught ==
  RunEnded => \A c \in raised \cap ErrorSites : ErrorShown /\ exc # "error" /\ Count(calls, c) = 1

\* the part of C6 that the code has: the four call sites of home1.py
C6_Home1Sites ==
  RunEnded =>
    \A c \in raised \cap (ErrorSites \ {"get_config", "stauth.Authenticate",
                                        "GoogleGenerativeAIEmbeddings"}) :
      ErrorShown /\ exc # "error" /\ Count(calls, c) = 1

LoggedIn == "authenticator.login" \in Range(calls)

\* C7 as stated: at the end of a run of an authenticated user who is not admin,
\* accessible_apps is the sub-list of APPS, in order, of the apps whose
\* access_privilege_role meets the user's roles, and it is empty when roles is None.
C7_ExactFilter ==
  LET r == Get(ss, "roles")
  IN (RunEnded /\ LoggedIn /\ Authenticated /\ "admin" \notin r.v) =>
       accessible_apps = Bound(SelectSeq(APPS, LAMBDA app : Intersects(app, r.v)))

\* the part of C7 that the code has: the filter's result for a role list
C7_ListRoles ==
  LET r == Get(ss, "roles")
  IN (accessible_apps.kind = "list" /\ "admin" \notin r.v) =>
       accessible_apps.v = SelectSeq(APPS, LAMBDA app : Intersects(app, r.v))

Cleared == ~IsPresent(ss, "authentication_status") /\ ~IsPresent(ss, "chat_messages")

\* C8 as stated: a run that got past authenticator.login ends in exactly one of: the
\* status is truthy, the navigation was built and the page was run; the status is
\* False and only the error is shown; the status is None, only the prompt is shown and
\* the clean-up has run.
C8_ThreeOutcomes ==
  (RunEnded /\ LoggedIn) =>
     \/ /\ Authenticated
        /\ nav.kind = "list" /\ page = "home1.py"
     \/ /\ Get(ss, "authentication_status") = "False"
        /\ shown = {Error("Username/password is incorrect")}
        /\ nav.kind = "unbound" /\ page = "none"
     \/ /\ Get(ss, "authentication_status") = "None"
        /\ shown = {Info("Please enter your username and password")}
        /\ Cleared
        /\ nav.kind = "unbound" /\ page = "none"

\* the part of C8 that the code has: home1.py runs only for an authenticated session
C8_PageOnlyAuthenticated == page = "home1.py" => Authenticated

(* the task description, read back *)
QuestionPos == CHOOSE i \in 1..Len(task_description) : task_description[i] = "QUESTION:"
ContextBlock == SubSeq(task_description, 6, QuestionPos - 3)
LabelPos == {i \in 1..Len(task_description) : task_description[i] = "[Source: "}
NumEntries == Cardinality(LabelPos)
KthLabel(k) == CHOOSE p \in LabelPos : Cardinality({q \in LabelPos : q < p}) = k - 1
EntryEnd(k) == IF k < NumEntries THEN KthLabel(k + 1) - 6 ELSE QuestionPos - 3
EntrySnippet(k) == SubSeq(task_description, KthLabel(k) + 4, EntryEnd(k))
IsPrefix(a, b) == Len(a) <= Len(b) /\ SubSeq(b, 1, Len(a)) = a
CleanContent(d) == Strip(ReplaceNewlines(d.page_content))

\* at most TopK entries, in the retriever's order, each labelled with its source, each
\* snippet at most SnippetLimit characters of the chunk plus an ellipsis, all of them in
\* front of the QUESTION section
EntriesAssembled ==
  /\ NumEntries = Min2(TopK, Len(returned))
  /\ \A p \in LabelPos : p < QuestionPos
  /\ \A k \in 1..NumEntries :
       /\ task_description[KthLabel(k) + 1] = SourceOf(returned[k], k)
       /\ LET sn == EntrySnippet(k)
              c == CleanContent(returned[k])
          IN IF Len(c) <= SnippetLimit THEN sn = c
             ELSE /\ Len(sn) <= SnippetLimit + 1
                  /\ sn[Len(sn)] = Ellipsis
                  /\ IsPrefix(SubSeq(sn, 1, Len(sn) - 1), c)

AllEmpty == \A i \in 1..Len(returned) : returned[i].page_content = << >>

\* C9 as stated: the task description holds the entries as above, and the context block
\* is the fixed sentence when no chunk was retrieved or every retrieved chunk is empty.
C9_PromptAssembled ==
  pc = "h1_kickoff" =>
    /\ EntriesAssembled
    /\ (returned = << >> \/ AllEmpty) => ContextBlock = << NoRelevantText >>

\* the part of C9 that the code has: the entries, and the fixed sentence when no chunk
\* was retrieved
C9_EntriesAssembled ==
  pc = "h1_kickoff" =>
    /\ EntriesAssembled
    /\ returned = << >> => ContextBlock = << NoRelevantText >>

Msgs(s) == s.messages.v
UserMessage(q) == [role |-> "user", content |-> q]
AssistantMessage(q) == [role |-> "assistant", content |-> Answer(q)]
Answered(m) ==
  \A i \in 1..Len(m) :
    m[i].role = "assistant" => (i > 1 /\ m[i - 1].role = "user" /\ m[i] = AssistantMessage(m[i - 1].content))
RetrievalAndAgentCalls ==
  { "get_relevant_documents", "similarity_search", "similarity_search_with_score", "Task", "Crew",
    "crew.kickoff" }

MessagesStep ==
  /\ IsPresent(ss, "messages") => (IsPresent(ss', "messages") /\ IsPrefix(Msgs(ss), Msgs(ss')))
  /\ Answered(Msgs(ss'))
  /\ pc \in {"h1_ask", "h0_ask"} =>
       /\ Msgs(ss') = Append(Msgs(ss), UserMessage(user_input))
       /\ Range(calls') \cap RetrievalAndAgentCalls = {}
  /\ (pc \in {"h1_kickoff", "h0_kickoff"} /\ raised' = raised) =>
       /\ Msgs(ss') = Append(Msgs(ss), AssistantMessage(user_input))
       /\ Msgs(ss)[Len(Msgs(ss))] = UserMessage(user_input)
  /\ (pc \in {"h1_kickoff", "h0_kickoff"} /\ raised' # raised) => Msgs(ss') = Msgs(ss)
  /\ pc \notin {"h1_ask", "h0_ask", "h1_kickoff", "h0_kickoff"} => Msgs(ss') = Msgs(ss)
  /\ (pc = "lg_branch" /\ pc' = "done") =>
       \A key \in DOMAIN ss : ss'[key] # ss[key] => key \in {"authentication_status", "chat_messages"}

\* C10: in every step of a session the chat history keeps what it holds; a submitted
\* question appends one user message before any retrieval or agent call of the run, a
\* crew run that returns appends its answer right behind that question, a failed
\* retrieval or crew run appends nothing, every assistant message stands right behind
\* the user message it answers, and the logout clean-up touches no key other than
\* 'authentication_status' and 'chat_messages'.
C10_AppendOnly == [][MessagesStep]_vars

\* the clean-up has just run on a session whose history holds an unanswered question
\* followed by an answered one
C10_Witness ==
  /\ RunEnded
  /\ shown = {Info("Please enter your username and password")}
  /\ Cleared
  /\ Msgs(ss) = << UserMessage("q1"), UserMessage("q2"), AssistantMessage("q2") >>


\* the session has written its upload (line 43 returned) and not yet loaded it (line 51)
AwaitingLoad(s) == session_pc[s] = "load"

\* the file at the session's temp_path holds exactly the bytes the session wrote
Intact(s) == \E h \in FileAt(temp_path(s)) : h.content = s

\* C11: while two sessions run the upload page concurrently, the temporary file a
\* session has written is still there with that session's bytes for as long as the
\* session has not finished loading it: the other session neither overwrites nor
\* deletes it in between, also when both uploads have the same name.
C11_NoInterference == \A s \in Sessions : AwaitingLoad(s) => Intact(s)

\* C11, uploads of different names: a step taken while the two sessions' uploads have
\* different names leaves the file a session is waiting to load as that session wrote it.
C11_DistinctNamesSafe ==
  [][\A s \in Sessions :
       (/\ AwaitingLoad(s) /\ Intact(s)
        /\ session_pc'[s] = "load"
        /\ session_file[Other(s)] # session_file[s]
        /\ session_file'[Other(s)] # session_file[s])
       => Intact(s)']_vars

\* C11, the consequence: a session has loaded, without any error, bytes that are not
\* its own upload (the other session's, or a mix of both)
C11_LoadedForeign ==
  \E s \in Sessions : session_pc[s] = "process" /\ session_pages[s] \notin {"unset", s}

====
